---- MODULE Spec2Model ----
(***************************************************************************)
(* A model of pdf-to-speech/pdf_reader.py: the command-line run of main,   *)
(* with text extraction, voice selection, live playback and rendering to   *)
(* a file.  Python strings are TLA+ strings; a Python value that may be    *)
(* missing is a record [tag, val] with tag "absent" (no such attribute),   *)
(* "none" (None) or "val".                                                 *)
(***************************************************************************)
EXTENDS Integers, Sequences, FiniteSets, TLC

VARIABLES
    pc,          \* position of the run inside main
    argv,        \* sys.argv, program name first
    fs,          \* the paths for which os.path.exists is true
    text,        \* main's local text (result of extract_text_from_pdf)
    pages,       \* what each page's extract_text() yields, in page order
    voices,      \* the voice descriptors the platform enumerates
    engine,      \* main's local engine (result of initialize_engine)
    typed,       \* what the user typed at the confirmation prompt
    wav,         \* the output paths handed to engine.save_to_file
    calls,       \* the library calls made so far, in order
    out,         \* the lines printed so far, in order
    exc          \* the exception raised in this run and where, or NoFault

vars == <<pc, argv, fs, text, pages, voices, engine, typed, wav, calls, out, exc>>

----------------------------------------------------------------------------
(* Bounds of the model *)

MaxPages == 2
MaxVoices == 2
MaxRespLen == 3
MaxPathLen == 5

(* Program constants *)

Rate == 150
VolumeTenths == 9
PreviewLen == 200
PlatformRate == 200
PlatformVolumeTenths == 10

----------------------------------------------------------------------------
(* Python values *)

Absent == [tag |-> "absent", val |-> ""]
None == [tag |-> "none", val |-> ""]
Val(v) == [tag |-> "val", val |-> v]

\* The same for a value that is a list when present.
AbsentList == [tag |-> "absent", val |-> <<>>]
NoneList == [tag |-> "none", val |-> <<>>]

\* A language tag is a str or a bytes object (for instance b'en-us').
StrTag(s) == [bytes |-> FALSE, s |-> s]
BytesTag(s) == [bytes |-> TRUE, s |-> s]

\* str(lang)
Str(lang) == IF lang.bytes THEN "b'" \o lang.s \o "'" ELSE lang.s

NoExc == "none"
NoFault == [site |-> "", kind |-> NoExc]
Fault(site, kind) == [site |-> site, kind |-> kind]

\* main's local engine before initialize_engine has returned.
NoEngine == [voice |-> "", rate |-> 0, volume |-> 0, live |-> FALSE]
PlatformVoice == "platform-default"
\* The engine as pyttsx3.init() hands it out.
FreshEngine ==
    [voice |-> PlatformVoice, rate |-> PlatformRate, volume |-> PlatformVolumeTenths, live |-> TRUE]

\* The classes `except Exception` catches; KeyboardInterrupt is not one of them.
ExceptionClasses == {"AttributeError", "TypeError", "PdfReadError", "RuntimeError", "EOFError"}

----------------------------------------------------------------------------
(* Strings *)

UpperChars == "ABCDEFGHIJKLMNOPQRSTUVWXYZ"
LowerChars == "abcdefghijklmnopqrstuvwxyz"
Whitespace == {" ", "\n", "\t"}

Char(s, i) == SubSeq(s, i, i)

\* str.lower() on one character: the letters A to Z change, nothing else does.
LowerOf ==
    [c \in {Char(UpperChars, i) : i \in 1..Len(UpperChars)} |->
        Char(LowerChars, CHOOSE i \in 1..Len(UpperChars) : Char(UpperChars, i) = c)]

LowerChar(c) == IF c \in DOMAIN LowerOf THEN LowerOf[c] ELSE c

RECURSIVE Lower(_)
Lower(s) == IF Len(s) = 0 THEN "" ELSE LowerChar(Char(s, 1)) \o Lower(SubSeq(s, 2, Len(s)))

\* Python's `sub in s`.
Contains(s, sub) ==
    \E i \in 1..(Len(s) - Len(sub) + 1) : SubSeq(s, i, i + Len(sub) - 1) = sub

RECURSIVE LStrip(_)
LStrip(s) ==
    IF Len(s) > 0 /\ Char(s, 1) \in Whitespace THEN LStrip(SubSeq(s, 2, Len(s))) ELSE s

RECURSIVE RStrip(_)
RStrip(s) ==
    IF Len(s) > 0 /\ Char(s, Len(s)) \in Whitespace THEN RStrip(SubSeq(s, 1, Len(s) - 1)) ELSE s

Strip(s) == RStrip(LStrip(s))

\* s.rfind(c) for a one-character c, as a 1-based position; 0 when there is none.
RFind(s, c) ==
    IF \E i \in 1..Len(s) : Char(s, i) = c
    THEN CHOOSE i \in 1..Len(s) :
             /\ Char(s, i) = c
             /\ \A j \in (i + 1)..Len(s) : Char(s, j) # c
    ELSE 0

\* Truth value of a Python string that may be None.
Truthy(v) == v.tag = "val" /\ v.val # ""

Min(a, b) == IF a < b THEN a ELSE b

----------------------------------------------------------------------------
(* extract_text_from_pdf *)

\* A variant of JoinPages that puts a space between the pages.
RECURSIVE JoinPagesSpaced(_)
JoinPagesSpaced(ps) ==
    IF ps = <<>> THEN ""
    ELSE (IF Truthy(Head(ps)) THEN Head(ps).val \o " " ELSE "") \o JoinPagesSpaced(Tail(ps))

\* "".join(page.extract_text() for page in reader.pages if page.extract_text())
RECURSIVE JoinPages(_)
JoinPages(ps) ==
    IF ps = <<>> THEN ""
    ELSE (IF Truthy(Head(ps)) THEN Head(ps).val ELSE "") \o JoinPages(Tail(ps))

\* The call extract_text_from_pdf(file_path) on a file that PdfReader rejects
\* (malformed) or whose pages yield ps.
ExtractTextFromPdf(file_path, malformed, ps) ==
    LET reading == <<"Reading PDF: " \o file_path>>
        full_text == JoinPages(ps)
        counted == reading \o <<"PDF has " \o ToString(Len(ps)) \o " pages.">>
    IN  IF malformed
        THEN [exc |-> Fault("PdfReader", "PdfReadError"), text |-> None, out |-> reading, calls |-> <<"PdfReader">>]
        ELSE IF Strip(full_text) = ""
        THEN [exc |-> NoFault, text |-> None,
              out |-> counted \o <<"No text could be extracted from the PDF.">>,
              calls |-> <<"PdfReader", "extract_text">>]
        ELSE [exc |-> NoFault, text |-> Val(full_text),
              out |-> counted \o <<"\nPreview of text:",
                         Strip(SubSeq(full_text, 1, Min(Len(full_text), PreviewLen))) \o "...">>,
              calls |-> <<"PdfReader", "extract_text">>]

----------------------------------------------------------------------------
(* initialize_engine *)

FemaleNames == {"zira", "susan", "serena", "hazel"}

\* any('en' in str(lang).lower() for lang in languages)
LangIsEnglish(languages) ==
    \E k \in 1..Len(languages) : Contains(Lower(Str(languages[k])), "en")

\* any(fem_name in name for fem_name in ['zira', 'susan', 'serena', 'hazel'])
IsFemaleByName(name) == \E fem_name \in FemaleNames : Contains(name, fem_name)

\* The test of one voice: line 30, on the values lines 20 to 28 compute.
VoiceMatches(voice) ==
    LET languages == IF voice.languages.tag = "absent" THEN <<>> ELSE voice.languages.val
        gender == Lower(IF voice.gender.tag = "absent" THEN "" ELSE voice.gender.val)
        name == Lower(voice.name)
    IN  LangIsEnglish(languages) /\ (gender = "female" \/ IsFemaleByName(name))

\* The for loop over voices from position i on: the id of the first match, None
\* when the loop ends without one, or the exception a voice raises on the way.
\* Iterating over None raises TypeError; None has no lower(): AttributeError.
RECURSIVE ScanVoices(_, _)
ScanVoices(vs, i) ==
    IF i > Len(vs) THEN [exc |-> NoFault, found |-> None]
    ELSE IF vs[i].languages.tag = "none" THEN [exc |-> Fault("for lang in languages", "TypeError"), found |-> None]
    ELSE IF vs[i].gender.tag = "none" THEN [exc |-> Fault("gender.lower", "AttributeError"), found |-> None]
    ELSE IF VoiceMatches(vs[i]) THEN [exc |-> NoFault, found |-> Val(vs[i].id)]
    ELSE ScanVoices(vs, i + 1)

\* A variant of InitializeEngine that sets rate and volume only in the branch
\* that found a voice.
InitializeEngineRateOnMatch(vs, fault) ==
    LET scan == ScanVoices(vs, 1)
    IN  IF fault.site = "pyttsx3.init"
        THEN [exc |-> fault, engine |-> NoEngine, out |-> <<>>, calls |-> <<"pyttsx3.init">>]
        ELSE IF scan.exc # NoFault
        THEN [exc |-> scan.exc, engine |-> NoEngine, out |-> <<>>,
              calls |-> <<"pyttsx3.init", "getProperty:voices">>]
        ELSE IF Truthy(scan.found)
        THEN [exc |-> NoFault,
              engine |-> [FreshEngine EXCEPT !.voice = scan.found.val,
                                             !.rate = Rate, !.volume = VolumeTenths],
              out |-> <<"Found an English female voice.">>,
              calls |-> <<"pyttsx3.init", "getProperty:voices", "setProperty:voice",
                          "setProperty:rate", "setProperty:volume">>]
        ELSE [exc |-> NoFault, engine |-> FreshEngine,
              out |-> <<"Could not find a dedicated English female voice. Using system default.">>,
              calls |-> <<"pyttsx3.init", "getProperty:voices">>]

\* The call initialize_engine() on a platform that enumerates vs; fault is the
\* failure of pyttsx3.init(), if any.
InitializeEngine(vs, fault) ==
    LET scan == ScanVoices(vs, 1)
        english_female_voice == scan.found
    IN  IF fault.site = "pyttsx3.init"
        THEN [exc |-> fault, engine |-> NoEngine, out |-> <<>>,
              calls |-> <<"pyttsx3.init">>]
        ELSE IF scan.exc # NoFault
        THEN [exc |-> scan.exc, engine |-> NoEngine, out |-> <<>>,
              calls |-> <<"pyttsx3.init", "getProperty:voices">>]
        ELSE IF Truthy(english_female_voice)
        THEN [exc |-> NoFault,
              engine |-> [FreshEngine EXCEPT !.voice = english_female_voice.val,
                                             !.rate = Rate, !.volume = VolumeTenths],
              out |-> <<"Found an English female voice.">>,
              calls |-> <<"pyttsx3.init", "getProperty:voices", "setProperty:voice",
                          "setProperty:rate", "setProperty:volume">>]
        ELSE [exc |-> NoFault,
              engine |-> [FreshEngine EXCEPT !.rate = Rate, !.volume = VolumeTenths],
              out |-> <<"Could not find a dedicated English female voice. Using system default.">>,
              calls |-> <<"pyttsx3.init", "getProperty:voices",
                          "setProperty:rate", "setProperty:volume">>]

----------------------------------------------------------------------------
(* speak_text, save_text_to_audio *)

\* A variant of SpeakText that compares the answer as typed, without lower().
SpeakTextExact(answer, fault) ==
    IF fault.site = "input"
    THEN [exc |-> fault, out |-> <<>>, calls |-> <<"input">>]
    ELSE IF answer = "y"
    THEN IF fault.site \in {"say", "runAndWait"}
         THEN [exc |-> fault,
               out |-> <<"Starting speech... (Press Ctrl+C to stop)">>,
               calls |-> IF fault.site = "say" THEN <<"input", "say">>
                         ELSE <<"input", "say", "runAndWait">>]
         ELSE [exc |-> NoFault,
               out |-> <<"Starting speech... (Press Ctrl+C to stop)", "Finished speaking!">>,
               calls |-> <<"input", "say", "runAndWait">>]
    ELSE [exc |-> NoFault, out |-> <<"Speech cancelled.">>, calls |-> <<"input">>]

\* The call speak_text(engine, text) when the user types `answer`; fault is the
\* exception input(), engine.say or engine.runAndWait raises, if any.
SpeakText(answer, fault) ==
    LET resp == Lower(answer)
    IN  IF fault.site = "input"
        THEN [exc |-> fault, out |-> <<>>, calls |-> <<"input">>]
        ELSE IF resp = "y"
        THEN IF fault.site = "say"
             THEN [exc |-> fault,
                   out |-> <<"Starting speech... (Press Ctrl+C to stop)">>,
                   calls |-> <<"input", "say">>]
             ELSE IF fault.site = "runAndWait"
             THEN [exc |-> fault,
                   out |-> <<"Starting speech... (Press Ctrl+C to stop)">>,
                   calls |-> <<"input", "say", "runAndWait">>]
             ELSE [exc |-> NoFault,
                   out |-> <<"Starting speech... (Press Ctrl+C to stop)", "Finished speaking!">>,
                   calls |-> <<"input", "say", "runAndWait">>]
        ELSE [exc |-> NoFault, out |-> <<"Speech cancelled.">>, calls |-> <<"input">>]

\* The call save_text_to_audio(engine, text, output_file).
SaveTextToAudio(output_file, fault) ==
    LET converting == <<"Converting PDF to audio file: " \o output_file>>
    IN  IF fault.site = "save_to_file"
        THEN [exc |-> fault, out |-> converting, calls |-> <<"save_to_file">>]
        ELSE IF fault.site = "runAndWait"
        THEN [exc |-> fault, out |-> converting,
              calls |-> <<"save_to_file", "runAndWait">>]
        ELSE [exc |-> NoFault,
              out |-> converting \o <<"Audio saved successfully to: " \o output_file>>,
              calls |-> <<"save_to_file", "runAndWait">>]

----------------------------------------------------------------------------
(* os.path on the output name *)

\* os.path.basename(p): what follows the last "/".
Basename(p) == SubSeq(p, RFind(p, "/") + 1, Len(p))

\* os.path.splitext(p)[0]: p up to its last dot, when that dot lies after the
\* last "/" and some character between them is not a dot; else p.
SplitextRoot(p) ==
    LET sepIndex == RFind(p, "/")
        dotIndex == RFind(p, ".")
    IN  IF /\ dotIndex > sepIndex
           /\ \E filenameIndex \in (sepIndex + 1)..(dotIndex - 1) : Char(p, filenameIndex) # "."
        THEN SubSeq(p, 1, dotIndex - 1)
        ELSE p

\* A variant of OutputName that leaves out os.path.basename.
OutputNameKeepsDir(file_path) == SplitextRoot(file_path) \o ".wav"

\* output_name of main, line 127.
OutputName(file_path) == SplitextRoot(Basename(file_path)) \o ".wav"

\* save_mode of main, line 124.
SaveMode(args) == Len(args) > 2 /\ Lower(args[3]) = "save"

----------------------------------------------------------------------------
(* list_voices *)

\* How print shows a language tag inside a list, and the list itself.
Repr(lang) == IF lang.bytes THEN Str(lang) ELSE "'" \o lang.s \o "'"

RECURSIVE ReprItems(_)
ReprItems(ls) ==
    IF ls = <<>> THEN ""
    ELSE IF Len(ls) = 1 THEN Repr(Head(ls))
    ELSE Repr(Head(ls)) \o ", " \o ReprItems(Tail(ls))

ShowLanguages(l) ==
    IF l.tag = "absent" THEN "['N/A']"
    ELSE IF l.tag = "none" THEN "None"
    ELSE "[" \o ReprItems(l.val) \o "]"

ShowGender(g) ==
    IF g.tag = "absent" THEN "N/A" ELSE IF g.tag = "none" THEN "None" ELSE g.val

\* The two lines printed for each voice from position i on.
RECURSIVE VoiceLines(_, _)
VoiceLines(vs, i) ==
    IF i > Len(vs) THEN <<>>
    ELSE <<"  " \o ToString(i - 1) \o ": " \o vs[i].name,
           "     - Gender: " \o ShowGender(vs[i].gender)
               \o ", Languages: " \o ShowLanguages(vs[i].languages)>>
         \o VoiceLines(vs, i + 1)

\* The call list_voices().
ListVoices(vs, fault) ==
    IF fault.site = "pyttsx3.init"
    THEN [exc |-> fault, out |-> <<>>, calls |-> <<"pyttsx3.init">>]
    ELSE [exc |-> NoFault,
          out |-> <<"Available Text-to-Speech Voices:", "--------------------------------------------------">>
                  \o VoiceLines(vs, 1),
          calls |-> <<"pyttsx3.init", "getProperty:voices">>]

----------------------------------------------------------------------------
(* main *)

UsageLines ==
    <<"PDF to Speech Reader",
      "==============================",
      "Usage:",
      "  python pdf_reader.py <pdf_file>         - Read PDF aloud",
      "  python pdf_reader.py <pdf_file> save    - Save to audio file",
      "  python pdf_reader.py voices             - List available voices">>

\* The failures the model lets the library calls of each step raise.
InitFaults ==
    {NoFault, Fault("pyttsx3.init", "RuntimeError"), Fault("pyttsx3.init", "KeyboardInterrupt")}
SpeakFaults ==
    {NoFault, Fault("input", "KeyboardInterrupt"), Fault("input", "EOFError"),
     Fault("say", "RuntimeError"), Fault("say", "KeyboardInterrupt"),
     Fault("runAndWait", "RuntimeError"), Fault("runAndWait", "KeyboardInterrupt")}
SaveFaults ==
    {NoFault, Fault("save_to_file", "RuntimeError"), Fault("save_to_file", "KeyboardInterrupt"),
     Fault("runAndWait", "RuntimeError"), Fault("runAndWait", "KeyboardInterrupt")}

\* The state when main is entered with one of the argument lists ARGS; the
\* path named by the first argument exists or does not.
Init(ARGS) ==
    /\ pc = "main"
    /\ argv \in ARGS
    /\ fs \in (IF Len(argv) >= 2 THEN {{}, {argv[2]}} ELSE {{}})
    /\ text = None
    /\ pages = <<>>
    /\ voices = <<>>
    /\ engine = NoEngine
    /\ typed = ""
    /\ wav = <<>>
    /\ calls = <<>>
    /\ out = <<>>
    /\ exc = NoFault

\* A variant of Main without the os.path.exists check.
MainNoExistsCheck ==
    /\ pc = "main"
    /\ IF Len(argv) < 2 \/ argv[2] \in {"-h", "--help"}
       THEN /\ out' = out \o UsageLines
            /\ pc' = "returned"
       ELSE IF argv[2] = "voices"
       THEN /\ pc' = "list_voices"
            /\ out' = out
       ELSE /\ pc' = "extract"
            /\ out' = out
    /\ UNCHANGED <<argv, fs, text, pages, voices, engine, typed, wav, calls, exc>>

\* Lines 97 to 115: usage, the voices command, the check that the file exists.
Main ==
    /\ pc = "main"
    /\ IF Len(argv) < 2 \/ argv[2] \in {"-h", "--help"}
       THEN /\ out' = out \o UsageLines
            /\ pc' = "returned"
            /\ calls' = calls
       ELSE IF argv[2] = "voices"
       THEN /\ pc' = "list_voices"
            /\ UNCHANGED <<out, calls>>
       ELSE IF argv[2] \notin fs
       THEN /\ out' = Append(out, "Error: File '" \o argv[2] \o "' does not exist!")
            /\ calls' = Append(calls, "os.path.exists")
            /\ pc' = "returned"
       ELSE /\ pc' = "extract"
            /\ calls' = Append(calls, "os.path.exists")
            /\ out' = out
    /\ UNCHANGED <<argv, fs, text, pages, voices, engine, typed, wav, exc>>

\* Lines 108 to 110: list_voices() is called outside the try statement, so
\* what it raises leaves main.
ListVoicesStep(VLS) ==
    /\ pc = "list_voices"
    /\ \E vs \in VLS, fault \in InitFaults :
         LET r == ListVoices(vs, fault)
         IN  /\ voices' = vs
             /\ out' = out \o r.out
             /\ calls' = calls \o r.calls
             /\ exc' = r.exc
             /\ pc' = IF r.exc # NoFault THEN "propagated" ELSE "returned"
    /\ UNCHANGED <<argv, fs, text, pages, engine, typed, wav>>

\* A variant of ExtractStep without the return on an empty result.
ExtractStepNoReturn(PDFS) ==
    /\ pc = "extract"
    /\ \E pdf \in PDFS :
         LET r == ExtractTextFromPdf(argv[2], pdf.malformed, pdf.pages)
         IN  /\ pages' = pdf.pages
             /\ text' = r.text
             /\ out' = out \o r.out
             /\ calls' = calls \o r.calls
             /\ exc' = r.exc
             /\ pc' = IF r.exc # NoFault THEN "except" ELSE "init_engine"
    /\ UNCHANGED <<argv, fs, voices, engine, typed, wav>>

\* Lines 118 to 120.
ExtractStep(PDFS) ==
    /\ pc = "extract"
    /\ \E pdf \in PDFS :
         LET r == ExtractTextFromPdf(argv[2], pdf.malformed, pdf.pages)
         IN  /\ pages' = pdf.pages
             /\ text' = r.text
             /\ out' = out \o r.out
             /\ calls' = calls \o r.calls
             /\ exc' = r.exc
             /\ pc' = IF r.exc # NoFault THEN "except"
                      ELSE IF ~Truthy(r.text) THEN "returned"
                      ELSE "init_engine"
    /\ UNCHANGED <<argv, fs, voices, engine, typed, wav>>

\* Line 122.
InitEngineStep(VLS) ==
    /\ pc = "init_engine"
    /\ \E vs \in VLS, fault \in InitFaults :
         LET r == InitializeEngine(vs, fault)
         IN  /\ voices' = vs
             /\ engine' = r.engine
             /\ out' = out \o r.out
             /\ calls' = calls \o r.calls
             /\ exc' = r.exc
             /\ pc' = IF r.exc # NoFault THEN "except" ELSE "mode"
    /\ UNCHANGED <<argv, fs, text, pages, typed, wav>>

\* Lines 124 to 128, save mode.
SaveStep ==
    /\ pc = "mode"
    /\ SaveMode(argv)
    /\ \E fault \in SaveFaults :
         LET output_name == OutputName(argv[2])
             r == SaveTextToAudio(output_name, fault)
         IN  /\ wav' = Append(wav, output_name)
             /\ out' = out \o r.out
             /\ calls' = calls \o r.calls
             /\ exc' = r.exc
             /\ pc' = IF r.exc # NoFault THEN "except" ELSE "returned"
    /\ UNCHANGED <<argv, fs, text, pages, voices, engine, typed>>

\* Lines 124 to 130, live mode.
SpeakStep(RS) ==
    /\ pc = "mode"
    /\ ~SaveMode(argv)
    /\ \E answer \in RS, fault \in SpeakFaults :
         LET r == SpeakText(answer, fault)
         IN  /\ typed' = (IF fault.site = "input" THEN "" ELSE answer)
             /\ out' = out \o r.out
             /\ calls' = calls \o r.calls
             /\ exc' = r.exc
             /\ pc' = IF r.exc # NoFault THEN "except" ELSE "returned"
    /\ UNCHANGED <<argv, fs, text, pages, voices, engine, wav>>

\* A variant of Except with the `except Exception` clause alone.
ExceptNoInterrupt ==
    /\ pc = "except"
    /\ IF exc.kind \in ExceptionClasses
       THEN /\ out' = Append(out, "An unexpected error occurred: " \o exc.kind)
            /\ pc' = "returned"
       ELSE /\ out' = out
            /\ pc' = "propagated"
    /\ UNCHANGED <<argv, fs, text, pages, voices, engine, typed, wav, calls, exc>>

\* Lines 132 to 135: the two except clauses of the try statement.
Except ==
    /\ pc = "except"
    /\ IF exc.kind = "KeyboardInterrupt"
       THEN /\ out' = Append(out, "\nOperation interrupted by user.")
            /\ pc' = "returned"
       ELSE IF exc.kind \in ExceptionClasses
       THEN /\ out' = Append(out, "An unexpected error occurred: " \o exc.kind)
            /\ pc' = "returned"
       ELSE /\ out' = out
            /\ pc' = "propagated"
    /\ UNCHANGED <<argv, fs, text, pages, voices, engine, typed, wav, calls, exc>>

Run(PDFS, VLS, RS) ==
    \/ Main
    \/ ListVoicesStep(VLS)
    \/ ExtractStep(PDFS)
    \/ InitEngineStep(VLS)
    \/ SaveStep
    \/ SpeakStep(RS)
    \/ Except

----------------------------------------------------------------------------
(* The inputs the specifications draw from *)

\* Every string of at most n characters of chars.
RECURSIVE Strings(_, _)
Strings(chars, n) ==
    IF n = 0 THEN {""}
    ELSE LET shorter == Strings(chars, n - 1)
         IN  shorter \cup {s \o c : s \in shorter, c \in chars}

\* Every sequence of at most n elements of S.
RECURSIVE SeqsUpTo(_, _)
SeqsUpTo(S, n) ==
    IF n = 0 THEN {<<>>}
    ELSE LET shorter == SeqsUpTo(S, n - 1)
         IN  shorter \cup {Append(q, x) : q \in shorter, x \in S}

Prog == "pdf_reader.py"

\* The invocation forms of main for the paths P and the second arguments M.
ArgsFor(P, M) ==
    {<<Prog>>, <<Prog, "-h">>, <<Prog, "--help">>, <<Prog, "voices">>, <<Prog, "-h", "save">>}
    \cup {<<Prog, p>> : p \in P}
    \cup {<<Prog, p, m>> : p \in P, m \in M}

FewPaths == {"report.pdf", "docs/report.pdf", "/no/such.pdf"}
OnePath == {"report.pdf"}
AllPaths == Strings({"/", ".", "r", "p"}, MaxPathLen) \ {""}
Modes == {"save", "SAVE", "Save", "fast", ""}

\* What a page's extract_text() yields.
PageTexts == {None, Val(""), Val(" "), Val("\n"), Val("Hi"), Val(" a\n")}
Pdf(ps) == [malformed |-> FALSE, pages |-> ps]
Malformed == [malformed |-> TRUE, pages |-> <<>>]
OnePdf == {Pdf(<<Val("Hi")>>)}
FewPdfs == {Malformed, Pdf(<<>>), Pdf(<<None, Val("")>>), Pdf(<<Val("Hi"), None, Val(" a\n")>>)}
AllPdfs == {Malformed} \cup {Pdf(ps) : ps \in SeqsUpTo(PageTexts, MaxPages)}

\* Voice descriptors, the id left to the platform's enumeration.
Descriptor(n, l, g) == [name |-> n, languages |-> l, gender |-> g]
English == Val(<<StrTag("en-US")>>)
Descriptors ==
    {Descriptor("Microsoft Zira Desktop", English, Absent),
     Descriptor("Alex", Val(<<StrTag("fr_FR"), StrTag("EN-GB")>>), Val("Female")),
     Descriptor("Alex", Val(<<BytesTag("en-us")>>), Val("male")),
     Descriptor("Anna", Val(<<StrTag("de")>>), Val("female")),
     Descriptor("Amelie", Val(<<StrTag("French")>>), Val("female")),
     Descriptor("SUSAN", AbsentList, Val("female")),
     Descriptor("Alex", English, Absent),
     Descriptor("Alex", Val(<<>>), Val("female")),
     Descriptor("Alex", AbsentList, Absent),
     Descriptor("Alex", NoneList, Val("female")),
     Descriptor("Microsoft Hazel", English, None),
     Descriptor("Microsoft David", English, None),
     Descriptor("Alex", NoneList, None)}

\* The platform's list for the descriptors ds: the i-th voice gets the i-th id.
Enumerate(ds) ==
    [i \in 1..Len(ds) |->
        [id |-> "voice" \o ToString(i), name |-> ds[i].name,
         languages |-> ds[i].languages, gender |-> ds[i].gender]]

AllVoiceLists == {Enumerate(ds) : ds \in SeqsUpTo(Descriptors, MaxVoices)}
OneVoiceList ==
    {Enumerate(<<Descriptor("Microsoft David", English, Val("male")),
                 Descriptor("Microsoft Zira Desktop", English, Absent)>>)}
FewVoiceLists ==
    OneVoiceList \cup
    {Enumerate(<<>>),
     Enumerate(<<Descriptor("Amelie", Val(<<StrTag("fr_CA")>>), Val("female"))>>),
     Enumerate(<<Descriptor("Microsoft Hazel", AbsentList, None)>>)}

OneAnswer == {"y"}
FewAnswers == {"y", "Y", "n", ""}
AllAnswers == Strings({"y", "Y", "n", "e", "s"}, MaxRespLen)

----------------------------------------------------------------------------
(* Specifications *)

\* Every invocation form of main.
Next == Run(FewPdfs, FewVoiceLists, FewAnswers)
Spec == Init(ArgsFor(FewPaths, Modes)) /\ [][Next]_vars

\* main over every PDF within the bounds.
NextExtract == Run(AllPdfs, OneVoiceList, OneAnswer)
SpecExtract == Init(ArgsFor(OnePath, {"save"})) /\ [][NextExtract]_vars

\* main over every list of voices within the bounds.
NextVoices == Run(OnePdf, AllVoiceLists, OneAnswer)
SpecVoices == Init(ArgsFor(OnePath, {"save"})) /\ [][NextVoices]_vars

\* main over every answer to the prompt within the bounds.
NextSpeak == Run(OnePdf, OneVoiceList, AllAnswers)
SpecSpeak == Init(ArgsFor(OnePath, {"save"})) /\ [][NextSpeak]_vars

\* main over every path within the bounds.
NextSave == Run(OnePdf, OneVoiceList, OneAnswer)
SpecSave == Init(ArgsFor(AllPaths, {"save", "SAVE"})) /\ [][NextSave]_vars

----------------------------------------------------------------------------
(* Properties *)

\* The library call `call` has been made in this run.
Has(call) == \E i \in 1..Len(calls) : calls[i] = call

Printed(line) == \E i \in 1..Len(out) : out[i] = line

LiveRun == Len(argv) >= 2 /\ argv[2] # "voices" /\ ~SaveMode(argv)

\* The user's answer has been read at the prompt of speak_text.
Answered == Has("input") /\ exc.site # "input"

\* C1, as stated: once the prompt has been answered, playback (engine.say) has
\* been invoked if and only if the answer is exactly the lowercase string "y".
C1_PlaybackIffExactlyY == Answered => (Has("say") <=> typed = "y")

\* C1, amended: once the prompt has been answered, playback has been invoked
\* if and only if the answer is "y" or "Y" (the answer is lowercased before it
\* is compared); every other answer prints "Speech cancelled." and invokes
\* neither engine.say nor engine.runAndWait; an answered "y" or "Y" that meets
\* no failure is followed by engine.runAndWait and "Finished speaking!".
C1_PlaybackIffYAnyCase ==
    Answered =>
        /\ Has("say") <=> typed \in {"y", "Y"}
        /\ typed \notin {"y", "Y"} =>
               /\ ~Has("runAndWait")
               /\ Printed("Speech cancelled.")
               /\ exc = NoFault
        /\ (typed \in {"y", "Y"} /\ exc = NoFault) =>
               /\ Has("runAndWait")
               /\ Printed("Finished speaking!")

C1_Witness ==
    /\ pc = "returned"
    /\ typed = "Y"
    /\ calls[Len(calls)] = "runAndWait"
    /\ Printed("Finished speaking!")

----------------------------------------------------------------------------

\* What the specification says of one voice descriptor: it has a language
\* tag containing "en" in any case, and its gender is "female" in any case or
\* its name contains one of the four names in any case.  A field that is
\* missing or null counts as no match.
SaysEnglish(v) ==
    /\ v.languages.tag = "val"
    /\ \E k \in 1..Len(v.languages.val) :
          \E i \in 1..Len(v.languages.val[k].s) :
              /\ Char(v.languages.val[k].s, i) \in {"e", "E"}
              /\ i < Len(v.languages.val[k].s)
              /\ Char(v.languages.val[k].s, i + 1) \in {"n", "N"}

SaysFemale(v) ==
    \/ v.gender.tag = "val" /\ Len(v.gender.val) = 6 /\ Lower(v.gender.val) = "female"
    \/ \E f \in {"zira", "susan", "serena", "hazel"} :
          \E i \in 1..Len(v.name) :
              /\ i + Len(f) - 1 <= Len(v.name)
              /\ \A j \in 1..Len(f) : LowerChar(Char(v.name, i + j - 1)) = Char(f, j)

Wanted(v) == SaysEnglish(v) /\ SaysFemale(v)

\* initialize_engine has enumerated the voices in this run.
Scanned == Has("getProperty:voices") /\ Has("PdfReader")

\* C2: once initialize_engine has enumerated the voices, the engine voice is
\* the id of the first descriptor, in enumeration order, that is English and
\* female by gender or by name; when there is none the voice is never set.
C2_FirstWantedVoiceIsSet ==
    Scanned =>
        IF \E i \in 1..Len(voices) : Wanted(voices[i])
        THEN LET first == CHOOSE i \in 1..Len(voices) :
                              /\ Wanted(voices[i])
                              /\ \A j \in 1..(i - 1) : ~Wanted(voices[j])
             IN  engine.voice = voices[first].id
        ELSE ~Has("setProperty:voice")

\* C3: a descriptor whose languages or gender is missing or null raises no
\* fault: once initialize_engine has enumerated the voices, no exception has
\* been raised by the scan of the descriptors.
C3_AbsentFieldsRaiseNothing ==
    Scanned => exc.site \notin {"for lang in languages", "gender.lower"}

----------------------------------------------------------------------------

\* The text of the pages up to page n, in page order, with no separator.
RECURSIVE ConcatUpTo(_, _)
ConcatUpTo(ps, n) ==
    IF n = 0 THEN ""
    ELSE ConcatUpTo(ps, n - 1) \o (IF ps[n].tag = "val" THEN ps[n].val ELSE "")

YieldsText(page) == page.tag = "val" /\ Len(page.val) > 0

HasInk(page) ==
    /\ page.tag = "val"
    /\ \E i \in 1..Len(page.val) : Char(page.val, i) \notin {" ", "\n", "\t"}

\* extract_text_from_pdf has read the pages and returned.
Extracted == Has("extract_text")

\* C4, as stated: when at least one page yields text, extraction returns the
\* non-empty concatenation of the pages' text, never the no-text signal.
C4_ConcatWhenSomePageYields ==
    (Extracted /\ \E i \in 1..Len(pages) : YieldsText(pages[i])) =>
        /\ text.tag = "val"
        /\ text.val = ConcatUpTo(pages, Len(pages))
        /\ text.val # ""

\* C4, amended: when at least one page yields text that has a character other
\* than whitespace, extraction returns the non-empty concatenation, in page
\* order and with no separator, of the text of the pages that yield text; when
\* pages yield text but all of it is whitespace, it returns the no-text signal.
C4_ConcatWhenSomePageHasInk ==
    /\ (Extracted /\ \E i \in 1..Len(pages) : HasInk(pages[i])) =>
           /\ text.tag = "val"
           /\ text.val = ConcatUpTo(pages, Len(pages))
           /\ text.val # ""
    /\ (Extracted /\ \A i \in 1..Len(pages) : ~HasInk(pages[i])) => text = None

C4_Witness ==
    /\ Extracted
    /\ Len(pages) = 2
    /\ ~YieldsText(pages[1])
    /\ pages[2] = Val(" a\n")
    /\ text = Val(" a\n")

\* C5: when every page of an existing PDF yields no text, extraction returns
\* the no-text signal and the run ends with no engine initialization, no
\* prompt, no playback and no rendering to a file.
C5_NoTextNoSpeech ==
    (Extracted /\ \A i \in 1..Len(pages) : ~YieldsText(pages[i])) =>
        /\ text = None
        /\ pc = "returned"
        /\ exc = NoFault
        /\ engine = NoEngine
        /\ \A c \in {"pyttsx3.init", "getProperty:voices", "input", "say", "runAndWait",
                      "save_to_file"} : ~Has(c)
        /\ out[Len(out)] = "No text could be extracted from the PDF."

C5_Witness ==
    /\ pc = "returned"
    /\ Extracted
    /\ Len(pages) = 2
    /\ pages[1] = None
    /\ pages[2] = Val("")

----------------------------------------------------------------------------

\* main was given a path that does not exist.
MissingFile ==
    /\ Len(argv) >= 2
    /\ argv[2] \notin {"voices", "-h", "--help"}
    /\ argv[2] \notin fs

\* C6: a run on a path that does not exist, with or without a second
\* argument, prints one error line that names the path and returns, having
\* made no extraction, engine, playback or save call.
C6_MissingFileOnlyReports ==
    (MissingFile /\ pc # "main") =>
        /\ pc = "returned"
        /\ exc = NoFault
        /\ Len(out) = 1
        /\ Contains(out[1], "Error")
        /\ Contains(out[1], argv[2])
        /\ calls = <<"os.path.exists">>
        /\ text = None /\ engine = NoEngine /\ wav = <<>>

C6_Witness ==
    /\ pc = "returned"
    /\ argv = <<Prog, "/no/such.pdf", "save">>
    /\ calls = <<"os.path.exists">>

\* C7: no failure of any invocation form leaves main uncaught.
C7_NothingPropagates == pc # "propagated"

\* C8: a KeyboardInterrupt raised by engine.say or engine.runAndWait during
\* live playback is caught by main: the run is at the except clause or has
\* returned with the interruption message as its last line, and "Finished
\* speaking!" is never printed.
C8_InterruptedPlaybackIsCaught ==
    (LiveRun /\ exc.kind = "KeyboardInterrupt" /\ exc.site \in {"say", "runAndWait"}) =>
        /\ pc \in {"except", "returned"}
        /\ ~Printed("Finished speaking!")
        /\ pc = "returned" => out[Len(out)] = "\nOperation interrupted by user."

C8_Witness ==
    /\ pc = "returned"
    /\ LiveRun
    /\ exc = Fault("runAndWait", "KeyboardInterrupt")
    /\ typed = "y"

----------------------------------------------------------------------------

\* C9: an engine that initialize_engine has returned has rate 150 and volume
\* 0.9, with or without a matching voice; so it has whenever playback or
\* rendering to a file is invoked.
C9_RateAndVolumeAlwaysSet ==
    /\ engine.live => engine.rate = 150 /\ engine.volume = 9
    /\ (Has("say") \/ Has("save_to_file")) =>
           engine.live /\ engine.rate = 150 /\ engine.volume = 9
    /\ (pc = "mode" \/ Has("input")) => engine.live

C9_Witness ==
    /\ Has("save_to_file")
    /\ Len(voices) = 2
    /\ engine.voice = PlatformVoice
    /\ engine.rate = 150

----------------------------------------------------------------------------

NoSlash(s) == \A i \in 1..Len(s) : Char(s, i) # "/"

\* base is the last component of the path p.
IsBaseOf(base, p) ==
    /\ NoSlash(base)
    /\ Len(base) <= Len(p)
    /\ SubSeq(p, Len(p) - Len(base) + 1, Len(p)) = base
    /\ Len(base) < Len(p) => Char(p, Len(p) - Len(base)) = "/"

\* Position k of base is the dot that starts its extension: the last dot,
\* with some character that is not a dot before it.
StartsExtension(base, k) ==
    /\ Char(base, k) = "."
    /\ \A j \in (k + 1)..Len(base) : Char(base, j) # "."
    /\ \E j \in 1..(k - 1) : Char(base, j) # "."

\* stem is base without its extension, or base when it has none.
IsStemOf(stem, base) ==
    IF \E k \in 1..Len(base) : StartsExtension(base, k)
    THEN \E k \in 1..Len(base) : StartsExtension(base, k) /\ stem = SubSeq(base, 1, k - 1)
    ELSE stem = base

\* C10: the path handed to engine.save_to_file is the base filename of the
\* input with its extension replaced by ".wav", with no directory part.
C10_OutputIsBaseNameWav ==
    wav # <<>> =>
        /\ Len(wav) = 1
        /\ NoSlash(wav[1])
        /\ Len(wav[1]) >= 4
        /\ SubSeq(wav[1], Len(wav[1]) - 3, Len(wav[1])) = ".wav"
        /\ \E n \in 0..Len(argv[2]) :
              LET base == SubSeq(argv[2], Len(argv[2]) - n + 1, Len(argv[2]))
              IN  /\ IsBaseOf(base, argv[2])
                  /\ IsStemOf(SubSeq(wav[1], 1, Len(wav[1]) - 4), base)

C10_Witness ==
    /\ argv = <<Prog, "p/r.p", "save">>
    /\ wav = <<"r.wav">>
    /\ Printed("Audio saved successfully to: r.wav")

====
